---- MODULE Spec2Model ----
(***************************************************************************)
(* Ray-marching / SDF core of the Babylon.js ray-marching demos.           *)
(*                                                                         *)
(* GLSL floats are modelled as fixed-point integers: the integer x stands  *)
(* for the real x / Scale.  Products and square roots round towards minus  *)
(* infinity.  The IEEE not-a-number is the distinguished value NaN: every  *)
(* arithmetic operation on it yields NaN, every comparison with it is      *)
(* false, and min / max / step / clamp are the comparisons the GLSL        *)
(* specification defines them by.                                          *)
(***************************************************************************)
EXTENDS Integers, Sequences, FiniteSets, TLC

\* fixed-point unit: 1.0
Scale == 1000

\* the float not-a-number
NaN == -(2^30)

IsNaN(x) == x = NaN

\* ---------------------------------------------------------------- floats
FAdd(a, b) == IF IsNaN(a) \/ IsNaN(b) THEN NaN ELSE a + b

FSub(a, b) == IF IsNaN(a) \/ IsNaN(b) THEN NaN ELSE a - b

\* floor(a * b / Scale), split so that no intermediate product overflows
FMul(a, b) ==
  IF IsNaN(a) \/ IsNaN(b) THEN NaN
  ELSE (a \div Scale) * b + ((a % Scale) * b) \div Scale

\* floor(a * Scale / b) for b > 0, split so that no product overflows
FDiv(a, b) ==
  IF IsNaN(a) \/ IsNaN(b) THEN NaN
  ELSE (a \div b) * Scale + ((a % b) * Scale) \div b

\* a < b, a > b: false as soon as one side is NaN
FLt(a, b) == ~IsNaN(a) /\ ~IsNaN(b) /\ a < b

FGt(a, b) == ~IsNaN(a) /\ ~IsNaN(b) /\ a > b

\* GLSL max(x, y): y if x < y, otherwise x
FMax(x, y) == IF FLt(x, y) THEN y ELSE x

\* GLSL min(x, y): y if y < x, otherwise x
FMin(x, y) == IF FLt(y, x) THEN y ELSE x

\* GLSL abs(x)
FAbs(x) == IF IsNaN(x) THEN NaN ELSE IF x < 0 THEN -x ELSE x

\* GLSL step(edge, x): 0.0 if x < edge, otherwise 1.0
step(edge, x) == IF FLt(x, edge) THEN 0 ELSE Scale

\* GLSL clamp(x, lo, hi) = min(max(x, lo), hi)
clamp(x, lo, hi) == FMin(FMax(x, lo), hi)

\* GLSL mix(x, y, a) = x * (1 - a) + y * a
mix(x, y, a) == FAdd(FMul(x, FSub(Scale, a)), FMul(y, a))

\* GLSL smoothstep(e0, e1, x)
smoothstep(e0, e1, x) ==
  LET u == clamp(FDiv(FSub(x, e0), FSub(e1, e0)), 0, Scale)
  IN  FMul(FMul(u, u), FSub(3 * Scale, FMul(2 * Scale, u)))

RECURSIVE ISqrtIn(_, _, _)
\* the largest r in lo..hi with r * r <= n  (lo * lo <= n)
ISqrtIn(n, lo, hi) ==
  IF lo >= hi THEN lo
  ELSE LET mid == (lo + hi + 1) \div 2
       IN  IF mid * mid <= n THEN ISqrtIn(n, mid, hi)
                             ELSE ISqrtIn(n, lo, mid - 1)

\* floor(sqrt(n)), 0 <= n < 2^31
ISqrt(n) == ISqrtIn(n, 0, 46340)

IAbs(x) == IF x < 0 THEN -x ELSE x

IMax(x, y) == IF x < y THEN y ELSE x

\* GLSL length(v) of a vec3.  Components above 20000 are first scaled down,
\* so that precision is relative to the magnitude, as a float's is.
length(v) ==
  IF IsNaN(v[1]) \/ IsNaN(v[2]) \/ IsNaN(v[3]) THEN NaN
  ELSE LET m == IMax(IAbs(v[1]), IMax(IAbs(v[2]), IAbs(v[3])))
           k == (m \div 20000) + 1
           x == IAbs(v[1]) \div k
           y == IAbs(v[2]) \div k
           z == IAbs(v[3]) \div k
       IN  k * ISqrt(x * x + y * y + z * z)

\* componentwise vec3 operations
VAdd(a, b) == <<FAdd(a[1], b[1]), FAdd(a[2], b[2]), FAdd(a[3], b[3])>>

VSub(a, b) == <<FSub(a[1], b[1]), FSub(a[2], b[2]), FSub(a[3], b[3])>>

VScale(s, a) == <<FMul(s, a[1]), FMul(s, a[2]), FMul(s, a[3])>>

VAbs(a) == <<FAbs(a[1]), FAbs(a[2]), FAbs(a[3])>>

VMax0(a) == <<FMax(a[1], 0), FMax(a[2], 0), FMax(a[3], 0)>>

\* ------------------------------------------------------- distance fields
\* sdfBox with abs(p) forgotten: d = p - b
sdfBox_noAbs(p, b) ==
  LET d == VSub(p, b)
  IN  FAdd(FMin(FMax(d[1], FMax(d[2], d[3])), 0), length(VMax0(d)))

\* sdfBox with length(d) in place of length(max(d, 0.0))
sdfBox_lengthOfD(p, b) ==
  LET d == VSub(VAbs(p), b)
  IN  FAdd(FMin(FMax(d[1], FMax(d[2], d[3])), 0), length(d))

\* box variants: sdfBox(p, b)
sdfBox(p, b) ==
  LET d == VSub(VAbs(p), b)
  IN  FAdd(FMin(FMax(d[1], FMax(d[2], d[3])), 0), length(VMax0(d)))

\* glow variant: sdfSphere(p, sphereCenter, radius)
sdfSphere_glow(p, sphereCenter, radius) ==
  FSub(length(VSub(p, sphereCenter)), radius)

\* sdfSphere measuring from the world origin instead of sphereCenter
sdfSphere_hit_noCenter(p, sphereCenter, radius) ==
  FSub(length(p), FMul(radius, Scale \div 2))

\* binary-hit sphere variant: sdfSphere(p, sphereCenter, radius)
sdfSphere_hit(p, sphereCenter, radius) ==
  FSub(length(VSub(p, sphereCenter)), FMul(radius, Scale \div 2))

\* ----------------------------------------------------------- noise / FBM
\* number of lattice samples the modelled noise field repeats after
PatternLen == 2

\* hash() is fract(...), noise() a trilinear mix of hashes: values in [0, 1)
NoiseVals == {0, Scale - 1}

\* the noise fields of the model: one value per (sample, octave) residue
NoiseFields == [0 .. PatternLen - 1 -> NoiseVals]

\* noise(p * frequency) at the i-th march sample, octave k, in field nf
noise(nf, i, k) == nf[(i + k) % PatternLen]

RECURSIVE fbmLoop(_, _, _, _, _)
\* the octave loop of fbm: total += amplitude * noise; amplitude *= 0.5
fbmLoop(nf, i, k, amplitude, total) ==
  IF k >= 5 THEN total
  ELSE fbmLoop(nf, i, k + 1, FMul(amplitude, Scale \div 2),
               FAdd(total, FMul(amplitude, noise(nf, i, k))))

\* fbm with the first amplitude 1.0
fbm_fullAmplitude(nf, i) == fbmLoop(nf, i, 0, Scale, 0)

\* fbm(p) at the i-th march sample
fbm(nf, i) == fbmLoop(nf, i, 0, Scale \div 2, 0)

\* FBM-displaced binary-hit sphere: displacement weight 0.1
sdfSphere_fbm(p, sphereCenter, radius, nf, i) ==
  LET baseDist == FSub(length(VSub(p, sphereCenter)), FMul(radius, Scale \div 2))
      displacement == FMul(fbm(nf, i), Scale \div 10)
  IN  FAdd(baseDist, displacement)

\* FBM-displaced volumetric sphere: displacement weight 0.25
sdfSphere_vol(p, sphereCenter, radius, nf, i) ==
  LET baseDist == FSub(length(VSub(p, sphereCenter)), FMul(radius, Scale \div 2))
      displacement == FMul(fbm(nf, i), Scale \div 4)
  IN  FAdd(baseDist, displacement)

\* ---------------------------------------------------------------- palette
\* firePalette(i), sampled from the Planck formula at the breakpoints below
\* and interpolated linearly in between; each entry is <<i, <<r, g, b>>>>
PaletteTable ==
  << <<0,    <<7, 0, 0>>>>,
     <<125,  <<37, 2, 0>>>>,
     <<250,  <<134, 12, 1>>>>,
     <<500,  <<651, 158, 16>>>>,
     <<750,  <<987, 677, 159>>>>,
     <<1000, <<1000, 990, 649>>>>,
     <<1500, <<1000, 1000, 1000>>>> >>

Lerp(x, x0, x1, y0, y1) == y0 + ((x - x0) * (y1 - y0)) \div (x1 - x0)

RECURSIVE PaletteAt(_, _, _)
PaletteAt(x, c, k) ==
  IF x <= PaletteTable[1][1] THEN PaletteTable[1][2][c]
  ELSE IF k >= Len(PaletteTable) THEN PaletteTable[Len(PaletteTable)][2][c]
  ELSE IF x <= PaletteTable[k + 1][1]
       THEN Lerp(x, PaletteTable[k][1], PaletteTable[k + 1][1],
                 PaletteTable[k][2][c], PaletteTable[k + 1][2][c])
       ELSE PaletteAt(x, c, k + 1)

firePalette(x) ==
  IF IsNaN(x) THEN <<NaN, NaN, NaN>>
  ELSE <<PaletteAt(x, 1, 1), PaletteAt(x, 2, 1), PaletteAt(x, 3, 1)>>

\* ------------------------------------------------------ marcher constants
Variants == {"box", "sphere", "fbm", "glow", "vol"}

BinaryHit == {"box", "sphere", "fbm"}

\* the fixed iteration budget of each march loop
Steps(v) == IF v = "vol" THEN 64 ELSE 100

\* maxDistance of each march, in fixed point
MaxDistance(v) ==
  CASE v = "box"    -> 10 * Scale
    [] v = "sphere" -> 1000 * Scale
    [] v = "fbm"    -> 1000 * Scale
    [] v = "glow"   -> 100000 * Scale
    [] v = "vol"    -> 100 * Scale

\* hitThreshold of each binary-hit march: 0.001, 0.05, 0.1
HitThreshold(v) ==
  CASE v = "box"    -> Scale \div 1000
    [] v = "sphere" -> Scale \div 20
    [] v = "fbm"    -> Scale \div 10

\* the sentinel rayMarch returns when nothing was hit
Sentinel == -Scale

\* ------------------------------------------------------------------ state
VARIABLES
  variant,       \* which demo shader runs
  ro, rd,        \* ray origin and direction
  center,        \* spherePosition / cubePosition uniform
  radius,        \* sphereRadius uniform
  nf,            \* the noise field hash/noise read from (fbm, vol)
  sinTime,       \* sin(time) for the time uniform of this frame
  pc,            \* "march", "hit", "miss", "returned", "done"
  i,             \* loop counter of the march loop
  t,             \* distance travelled along the ray
  d,             \* last evaluated distance
  hit, glow,     \* glow variant: hit flag and glow accumulator
  ld, w, td, tc, \* volumetric variant: densities and accumulators
  volColor,      \* volumetric variant: firePalette(tc.x)
  ret,           \* value returned by rayMarch / alpha of computeVolumetricColor
  sceneColor,    \* main: the scene texture sample of this pixel
  collisionDetected, \* main: the collision flag uniform (box demos)
  col,           \* main: gl_FragColor.rgb
  done,          \* main has written gl_FragColor
  iters,         \* history: loop bodies executed so far
  tSample,       \* history: the t at which d was last evaluated
  dSample,       \* history: the distance last evaluated, as the SDF returned it
  sawNaN,        \* history: some evaluated distance was NaN
  below,         \* history: some evaluated distance was below hitThreshold
                 \* (volumetric march: below the density threshold h)
  deep,          \* history: some volumetric sample was below h - 1 (ld > 1)
  fn, fp, fb, fc, fr, fres, \* a single distance-function call and its result
  demo,          \* which TypeScript scene runs ("none": shader only)
  camPos, camDir, \* camera.position and camera.getForwardRay().direction
  originLive,    \* const rayOrigin = camera.position aliases the live vector
  tsFlag,        \* the TypeScript variable collisionDetected
  phase,         \* where scene.render() stands within the frame
  frame          \* frames started so far

inputVars == <<variant, ro, rd, center, radius, nf, sinTime>>

loopVars == <<pc, i, t, d, hit, glow, ld, w, td, tc, volColor, ret>>

mainVars == <<sceneColor, collisionDetected, col, done>>

histVars == <<iters, tSample, dSample, sawNaN, below, deep>>

marchVars == <<loopVars, mainVars, histVars>>

sdfVars == <<fn, fp, fb, fc, fr, fres>>

frameVars == <<demo, camPos, camDir, originLive, tsFlag, phase, frame>>

vars == <<inputVars, marchVars, sdfVars, frameVars>>

\* ----------------------------------------------------------------- inputs
\* camera positions: in front of the primitive, inside it, the demos'
\* ArcRotateCamera start, off-axis, grazing, and a position with a NaN
Origins ==
  { <<0, 0, -5000>>, <<0, 0, 0>>, <<2500, 3536, 2500>>,
    <<0, 3000, -5000>>, <<400, 0, -3000>>, <<0, 0, NaN>> }

\* ray directions: normalize(...) of main; normalize of the zero vector is
\* 0/0 in every component
Directions ==
  { <<0, 0, 1000>>, <<0, 0, -1000>>, <<600, 0, 800>>, <<0, -600, 800>>,
    <<-500, -707, -500>>, <<NaN, NaN, NaN>> }

Centers == { <<0, 0, 0>>, <<100000, 100000, 100000>> }

Radii == { Scale, 2 * Scale, 8 * Scale }

SinTimes == { -Scale, 0, Scale }

SceneColors == { <<0, 0, 0>>, <<200, 400, 600>>, <<1000, 1000, 1000>> }

CollisionFlags == { 0, Scale }

\* ------------------------------------------------------------------- Init
MarchStart ==
  /\ pc = "march" /\ i = 0 /\ t = 0 /\ d = Scale
  /\ hit = FALSE /\ glow = 0
  /\ ld = 0 /\ w = 0 /\ td = 0 /\ tc = 0 /\ volColor = <<0, 0, 0>>
  /\ ret = 0
  /\ sceneColor = <<0, 0, 0>> /\ collisionDetected = 0
  /\ col = <<0, 0, 0>> /\ done = FALSE
  /\ iters = 0 /\ tSample = 0 /\ dSample = Scale /\ sawNaN = FALSE /\ below = FALSE
  /\ deep = FALSE

\* the ArcRotateCamera as constructed: alpha = beta = PI / 4, radius 5,
\* looking at its target (0, 0, 0)
InitialPosition == <<2500, 3536, 2500>>

InitialDirection == <<-500, -707, -500>>

FrameOff ==
  /\ demo = "none" /\ camPos = InitialPosition /\ camDir = InitialDirection
  /\ originLive = FALSE /\ tsFlag = 0 /\ phase = "off" /\ frame = 0

SdfIdle ==
  /\ fn = "none" /\ fp = <<0, 0, 0>> /\ fb = <<Scale, Scale, Scale>>
  /\ fc = <<0, 0, 0>> /\ fr = Scale /\ fres = 0

Init ==
  /\ variant \in Variants
  /\ ro \in Origins
  /\ rd \in Directions
  /\ center \in (IF variant = "box" THEN {<<0, 0, 0>>} ELSE Centers)
  /\ radius \in (IF variant \in {"box", "glow"} THEN {Scale} ELSE Radii)
  /\ nf \in (IF variant \in {"fbm", "vol"} THEN NoiseFields
                                           ELSE {[k \in 0 .. PatternLen - 1 |-> 0]})
  /\ sinTime \in (IF variant = "glow" THEN SinTimes ELSE {0})
  /\ MarchStart
  /\ SdfIdle
  /\ FrameOff

\* ------------------------------------------------------- binary-hit march
\* vec3 p = ro + t * rd
SamplePoint(o, dir, tt) == VAdd(o, VScale(tt, dir))

\* float d = sdf...(p, ...) as each variant's rayMarch calls it
Distance(v, p, c, r, field, k) ==
  CASE v = "box"    -> sdfBox(p, <<Scale, Scale, Scale>>)
    [] v = "sphere" -> sdfSphere_hit(p, c, r)
    [] v = "fbm"    -> sdfSphere_fbm(p, c, r, field, k)
    [] v = "glow"   -> sdfSphere_glow(p, c, Scale)
    [] v = "vol"    -> sdfSphere_vol(p, c, r, field, k)

\* the loop guard written i <= steps
LoopGuard_offByOne(v, k) == k <= Steps(v)

\* for (int i = 0; i < steps; i++)
LoopGuard(v, k) == k < Steps(v)

\* the hit test written if (!(d >= hitThreshold)) return t;
IsHit_notGe(v, dd) == ~(~IsNaN(dd) /\ dd >= HitThreshold(v))

\* if (d < hitThreshold) return t;
IsHit(v, dd) == FLt(dd, HitThreshold(v))

\* a hit that returns the advanced distance t + d
HitReturn_advanced(tt, dd) == FAdd(tt, dd)

\* the value of "return t" at a hit
HitReturn(tt, dd) == tt

\* the advance taken twice as long as the sampled distance
Advance_double(tt, dd) == FAdd(tt, FMul(2 * Scale, dd))

\* t += d
Advance(tt, dd) == FAdd(tt, dd)

\* if (t > maxDistance) break;
Escaped(v, tt) == FGt(tt, MaxDistance(v))

\* one iteration of the loop of a binary-hit rayMarch (box, sphere, fbm)
rayMarchBody(v) ==
  /\ variant = v
  /\ pc = "march"
  /\ LoopGuard(v, i)
  /\ LET p  == SamplePoint(ro, rd, t)
         dd == Distance(v, p, center, radius, nf, i)
     IN  /\ d' = dd
         /\ iters' = iters + 1
         /\ tSample' = t
         /\ dSample' = dd
         /\ sawNaN' = (sawNaN \/ IsNaN(dd))
         /\ below' = (below \/ FLt(dd, HitThreshold(v)))
         /\ UNCHANGED deep
         /\ IF IsHit(v, dd)
            THEN /\ pc' = "hit"
                 /\ ret' = HitReturn(t, dd)
                 /\ UNCHANGED <<t, i>>
            ELSE /\ t' = Advance(t, dd)
                 /\ IF Escaped(v, t')
                    THEN /\ pc' = "miss"
                         /\ ret' = Sentinel
                         /\ i' = i
                    ELSE /\ pc' = "march"
                         /\ ret' = ret
                         /\ i' = i + 1
  /\ UNCHANGED <<frameVars, inputVars, hit, glow, ld, w, td, tc, volColor, mainVars, sdfVars>>

\* the loop ran out of iterations: return -1.0
rayMarchExhausted(v) ==
  /\ variant = v
  /\ pc = "march"
  /\ ~LoopGuard(v, i)
  /\ pc' = "miss"
  /\ ret' = Sentinel
  /\ UNCHANGED <<frameVars, inputVars, i, t, d, hit, glow, ld, w, td, tc, volColor,
                 mainVars, histVars, sdfVars>>

rayMarch_box == rayMarchBody("box") \/ rayMarchExhausted("box")

rayMarch_sphere == rayMarchBody("sphere") \/ rayMarchExhausted("sphere")

rayMarch_fbm == rayMarchBody("fbm") \/ rayMarchExhausted("fbm")

\* ------------------------------------------------------------- glow march
\* the glow contribution without the smoothstep falloff
GlowStep_noFalloff(dd, s) ==
  FMul(FMul(dd, Scale \div 5), FAdd(Scale, FMul((3 * Scale) \div 10, s)))

\* glow += glowContribution * 0.2 * (1.0 + 0.3 * sin(time)), threshold = 80
GlowStep(dd, s) ==
  LET glowContribution == FSub(Scale, smoothstep(0, 80 * Scale, dd))
  IN  FMul(FMul(glowContribution, Scale \div 5),
           FAdd(Scale, FMul((3 * Scale) \div 10, s)))

\* if (!hit && d < 100.0) hit = true;
GlowHit(h, dd) == h \/ FLt(dd, 100 * Scale)

\* return hit ? t : -1.0
GlowReturn(h, tt) == IF h THEN tt ELSE Sentinel

\* one iteration of the loop of the glow rayMarch, and its return
rayMarch_glow ==
  /\ variant = "glow"
  /\ pc = "march"
  /\ \/ /\ LoopGuard("glow", i)
        /\ LET p  == SamplePoint(ro, rd, t)
               dd == Distance("glow", p, center, radius, nf, i)
           IN  /\ d' = dd
               /\ iters' = iters + 1
               /\ tSample' = t
               /\ dSample' = dd
               /\ sawNaN' = (sawNaN \/ IsNaN(dd))
               /\ glow' = FAdd(glow, GlowStep(dd, sinTime))
               /\ hit' = GlowHit(hit, dd)
               /\ t' = Advance(t, dd)
               /\ IF Escaped("glow", t')
                  THEN /\ pc' = (IF hit' THEN "hit" ELSE "miss")
                       /\ ret' = GlowReturn(hit', t')
                       /\ i' = i
                  ELSE /\ pc' = "march"
                       /\ ret' = ret
                       /\ i' = i + 1
        /\ UNCHANGED <<below, deep>>
     \/ /\ ~LoopGuard("glow", i)
        /\ pc' = (IF hit THEN "hit" ELSE "miss")
        /\ ret' = GlowReturn(hit, t)
        /\ UNCHANGED <<i, t, d, hit, glow, histVars>>
  /\ UNCHANGED <<frameVars, inputVars, ld, w, td, tc, volColor, mainVars, sdfVars>>

\* ------------------------------------------------------- volumetric march
\* 0.0001 * t
TenThousandth(tt) == IF IsNaN(tt) THEN NaN ELSE tt \div 10000

\* the break without its saturation test
VolBreak_noSaturation(dens, dd, tt) ==
  \/ FLt(dd, TenThousandth(tt))
  \/ Escaped("vol", tt)

\* if (td > (1.0 - 1.0 / 200.0) || d < 0.0001 * t || t > 100.0) break;
VolBreak(dens, dd, tt) ==
  \/ FGt(dens, Scale - Scale \div 200)
  \/ FLt(dd, TenThousandth(tt))
  \/ Escaped("vol", tt)

\* the local density with the arguments of step exchanged
LocalDensity_stepSwapped(dd) ==
  FMul(FSub(Scale \div 10, dd), step(Scale \div 10, dd))

\* ld = (h - d) * step(d, h), h = 0.1
LocalDensity(dd) == FMul(FSub(Scale \div 10, dd), step(dd, Scale \div 10))

\* the weight without the headroom factor
Weight_noHeadroom(dens, l) == l

\* w = (1.0 - td) * ld
Weight(dens, l) == FMul(FSub(Scale, dens), l)

\* the colour increment with the weight not squared
ColorStep_linear(ww) == FAdd(ww, Scale \div 50)

\* tc += w * w + 1.0 / 50.0 (the increment)
ColorStep(ww) == FAdd(FMul(ww, ww), Scale \div 50)

\* td += w + 1.0 / 200.0 (the increment)
DensityStep(ww) == FAdd(ww, Scale \div 200)

\* the sampled distance kept as it is
FloorDistance_none(dd) == dd

\* d = max(d, 0.02)
FloorDistance(dd) == FMax(dd, Scale \div 50)

\* d = max(d, 0.02); t += d * 0.5
VolAdvance(tt, dd) == FAdd(tt, FMul(FloorDistance(dd), Scale \div 2))

\* one iteration of the loop of computeVolumetricColor, and its return;
\* tc is a vec3 with three equal components: tc stands for tc.x
computeVolumetricColor ==
  /\ variant = "vol"
  /\ pc = "march"
  /\ \/ /\ LoopGuard("vol", i)
        /\ ~VolBreak(td, d, t)
        /\ LET p  == SamplePoint(ro, rd, t)
               dd == Distance("vol", p, center, radius, nf, i)
               l  == LocalDensity(dd)
               ww == Weight(td, l)
           IN  /\ ld' = l
               /\ w' = ww
               /\ tc' = FAdd(tc, ColorStep(ww))
               /\ td' = FAdd(td, DensityStep(ww))
               /\ d' = FloorDistance(dd)
               /\ t' = VolAdvance(t, dd)
               /\ dSample' = dd
               /\ sawNaN' = (sawNaN \/ IsNaN(dd))
               /\ below' = (below \/ FLt(dd, Scale \div 10))
               /\ deep' = (deep \/ FLt(dd, Scale \div 10 - Scale))
        /\ i' = i + 1
        /\ iters' = iters + 1
        /\ tSample' = t
        /\ UNCHANGED <<pc, volColor, ret>>
     \/ /\ ~LoopGuard("vol", i) \/ VolBreak(td, d, t)
        /\ volColor' = firePalette(tc)
        /\ ret' = clamp(td, 0, Scale)
        /\ pc' = "returned"
        /\ UNCHANGED <<i, t, d, ld, w, td, tc, histVars>>
  /\ UNCHANGED <<frameVars, inputVars, hit, glow, mainVars, sdfVars>>

\* ------------------------------------------------------------------- main
VMix(a, b, x) == <<mix(a[1], b[1], x), mix(a[2], b[2], x), mix(a[3], b[3], x)>>

VClamp01(a) == <<clamp(a[1], 0, Scale), clamp(a[2], 0, Scale), clamp(a[3], 0, Scale)>>

\* box demos: col = vec3(0.0); if (t > 0.0) { tint, green on collision }
BoxColor(tt, flag) ==
  IF FGt(tt, 0)
  THEN IF FGt(flag, Scale \div 2) THEN <<0, Scale, 0>>
                                  ELSE <<Scale, Scale \div 2, Scale \div 5>>
  ELSE <<0, 0, 0>>

\* sphere demos: effectColor = t > 0.0 ? vec3(1.0, 0.9, 0.0) : sceneColor
SphereColor(tt, scene) ==
  IF FGt(tt, 0) THEN <<Scale, (9 * Scale) \div 10, 0>> ELSE scene

\* glow demo: clamp(sceneColor + glow * glowColor, 0, 1) if t > 0.0
GlowColor(tt, g, scene) ==
  IF FGt(tt, 0)
  THEN VClamp01(VAdd(scene, VScale(g, <<730, 850, Scale>>)))
  ELSE scene

\* volumetric demo: mix(sceneColor, volumetricColor, alpha)
VolColor(scene, vc, alpha) == VMix(scene, vc, alpha)

Returned == pc \in {"hit", "miss", "returned"} /\ ~done

\* the box shaders declare no textureSampler: the scene colour the
\* post-process was handed for this pixel is never read
main_box ==
  /\ variant = "box" /\ Returned
  /\ \E flag \in CollisionFlags, scene \in SceneColors :
       /\ collisionDetected' = flag
       /\ sceneColor' = scene
       /\ col' = BoxColor(ret, flag)
  /\ done' = TRUE
  /\ UNCHANGED <<frameVars, inputVars, loopVars, histVars, sdfVars>>

main_sphere ==
  /\ variant \in {"sphere", "fbm"} /\ Returned
  /\ \E scene \in SceneColors :
       /\ sceneColor' = scene
       /\ col' = SphereColor(ret, scene)
  /\ done' = TRUE
  /\ UNCHANGED <<frameVars, inputVars, loopVars, collisionDetected, histVars, sdfVars>>

main_glow ==
  /\ variant = "glow" /\ Returned
  /\ \E scene \in SceneColors :
       /\ sceneColor' = scene
       /\ col' = GlowColor(ret, glow, scene)
  /\ done' = TRUE
  /\ UNCHANGED <<frameVars, inputVars, loopVars, collisionDetected, histVars, sdfVars>>

main_vol ==
  /\ variant = "vol" /\ Returned
  /\ \E scene \in SceneColors :
       /\ sceneColor' = scene
       /\ col' = VolColor(scene, volColor, ret)
  /\ done' = TRUE
  /\ UNCHANGED <<frameVars, inputVars, loopVars, collisionDetected, histVars, sdfVars>>

Next ==
  \/ rayMarch_box
  \/ rayMarch_sphere
  \/ rayMarch_fbm
  \/ rayMarch_glow
  \/ computeVolumetricColor
  \/ main_box
  \/ main_sphere
  \/ main_glow
  \/ main_vol

Spec == Init /\ [][Next]_vars

\* --------------------------------------- distance functions on their own
\* half-width of the grid of query points, in units of 1.0
GridMax == 2

\* query points: every multiple of 0.5 within the grid
GridCoords == { k * (Scale \div 2) : k \in (-2 * GridMax) .. (2 * GridMax) }

GridPoints == { <<x, y, z>> : x \in GridCoords, y \in GridCoords, z \in GridCoords }

\* half-extents with positive components
HalfExtents ==
  { <<Scale, Scale, Scale>>, <<Scale \div 2, Scale, 2 * Scale>>,
    <<2 * Scale, 2 * Scale, 2 * Scale>>, <<250, 750, 1500>> }

\* directions of length exactly 1
UnitDirs ==
  { <<0, 0, 1000>>, <<1000, 0, 0>>, <<0, -1000, 0>>, <<600, 0, 800>>,
    <<360, 480, 800>>, <<-800, 600, 0>>, <<-480, -640, 600>> }

SdfCenters == Centers \cup { <<-3000, 500, 2000>> }

SpherePoints(c, r) ==
  {c} \cup { VAdd(c, VScale(r, u)) : u \in UnitDirs }
      \cup { VAdd(c, VScale(2 * r, u)) : u \in UnitDirs }

\* remap without the offset of the target range
remap_noOffset(value, min1, max1, min2, max2) ==
  FDiv(FMul(FSub(value, min1), FSub(max2, min2)), FSub(max1, min1))

\* return min2 + (value - min1) * (max2 - min2) / (max1 - min1);
remap(value, min1, max1, min2, max2) ==
  FAdd(min2, FDiv(FMul(FSub(value, min1), FSub(max2, min2)), FSub(max1, min1)))

\* worldFromUV up to its view-space position:
\* posVS.xyz *= remap(depth, 0.0, 1.0, cameraNear, cameraFar)
depthCorrection(posVS, depth, near, far) ==
  VScale(remap(depth, 0, Scale, near, far), posVS)

\* normalized depths; every main passes 1.0
Depths == { 0, Scale \div 4, Scale \div 2, Scale - 1, Scale }

\* camera.minZ and camera.maxZ
Nears == { Scale \div 100, Scale }

Fars == { Scale, 100 * Scale, 1000 * Scale }

\* inverseProjection * ndc for pixels at the centre, edges and corners
ViewPoints ==
  { <<x, y, -Scale>> : x \in {-800, 0, 377, 800}, y \in {-450, 0, 450} }

InitSdf ==
  /\ variant = "box" /\ ro = <<0, 0, 0>> /\ rd = <<0, 0, Scale>>
  /\ center = <<0, 0, 0>> /\ radius = Scale
  /\ nf = [k \in 0 .. PatternLen - 1 |-> 0] /\ sinTime = 0
  /\ MarchStart
  /\ SdfIdle
  /\ FrameOff

\* each call is made once, on inputs drawn from the sets above
call_sdfBox ==
  /\ fn = "none"
  /\ \E p \in GridPoints, b \in HalfExtents :
       /\ fn' = "sdfBox" /\ fp' = p /\ fb' = b
       /\ fres' = sdfBox(p, b)
  /\ UNCHANGED <<fc, fr, inputVars, marchVars, frameVars>>

call_sdfSphere_glow ==
  /\ fn = "none"
  /\ \E c \in SdfCenters, r \in Radii :
       \E p \in SpherePoints(c, r) :
         /\ fn' = "sdfSphere_glow" /\ fp' = p /\ fc' = c /\ fr' = r
         /\ fres' = sdfSphere_glow(p, c, r)
  /\ UNCHANGED <<fb, inputVars, marchVars, frameVars>>

call_sdfSphere_hit ==
  /\ fn = "none"
  /\ \E c \in SdfCenters, r \in Radii :
       \E p \in SpherePoints(c, r) :
         /\ fn' = "sdfSphere_hit" /\ fp' = p /\ fc' = c /\ fr' = r
         /\ fres' = sdfSphere_hit(p, c, r)
  /\ UNCHANGED <<fb, inputVars, marchVars, frameVars>>

call_remap ==
  /\ fn = "none"
  /\ \E depth \in Depths, near \in Nears, far \in Fars :
       /\ fn' = "remap" /\ fp' = <<depth, near, far>>
       /\ fres' = remap(depth, 0, Scale, near, far)
  /\ UNCHANGED <<fb, fc, fr, inputVars, marchVars, frameVars>>

\* main: worldFromUV(uv, 1.0)
call_worldFromUV ==
  /\ fn = "none"
  /\ \E posVS \in ViewPoints, near \in Nears, far \in Fars :
       /\ fn' = "worldFromUV" /\ fp' = posVS /\ fb' = <<Scale, near, far>>
       /\ fc' = depthCorrection(posVS, Scale, near, far)
  /\ UNCHANGED <<fr, fres, inputVars, marchVars, frameVars>>

NextSdf ==
  \/ call_sdfBox
  \/ call_sdfSphere_glow
  \/ call_sdfSphere_hit
  \/ call_remap
  \/ call_worldFromUV

SpecSdf == InitSdf /\ [][NextSdf]_vars

TypeOK == pc \in {"march", "hit", "miss", "returned"}

\* ----------------------------------------------------------------- claims
HasNaN(v) == IsNaN(v[1]) \/ IsNaN(v[2]) \/ IsNaN(v[3])

\* C1: in every marcher variant and for every input, NaN samples included,
\* the loop body runs at most the fixed bound of times: 100 for rayMarch,
\* 64 for computeVolumetricColor.
C1_IterationBound ==
  /\ iters <= (IF variant = "vol" THEN 64 ELSE 100)
  /\ i <= iters

\* C1 witness: a march on NaN samples that used its whole budget of 100
C1_Witness == variant \in BinaryHit /\ sawNaN /\ iters = 100 /\ pc = "miss"

\* C2: in every marcher variant, t after a step is >= t before the step
\* (steps whose result is NaN set aside).
C2_Monotone == [][(pc = "march" /\ ~IsNaN(t') /\ ~IsNaN(t)) => t' >= t]_vars

\* C3: in the binary-hit variants, once a distance evaluation yielded NaN
\* the march reports MISS: it returns -1.0, never a hit distance or a NaN.
C3_NaNIsMiss ==
  (variant \in BinaryHit /\ sawNaN) =>
     /\ pc \in {"march", "miss"}
     /\ pc = "miss" => ret = Sentinel
     /\ ~IsNaN(ret)

\* C3 witness: a binary-hit march that sampled NaN and has returned
C3_Witness == variant \in BinaryHit /\ sawNaN /\ pc = "miss" /\ ret = Sentinel

\* C4: in the volumetric and glow marches NaN never reaches the accumulators
\* td / tc / glow, the returned alpha or the final pixel colour.
C4_NoNaNInColor ==
  variant \in {"vol", "glow"} =>
     /\ ~IsNaN(td) /\ ~IsNaN(tc) /\ ~IsNaN(glow)
     /\ ~IsNaN(ret)
     /\ ~HasNaN(col)

\* C5: a binary-hit rayMarch starts marching at t = 0, returns the t of the
\* sample (not advanced) at the first sample whose distance is below the hit
\* threshold, and returns -1.0 exactly when no sample was below it.
C5_HitOrSentinel ==
  variant \in BinaryHit =>
     /\ (iters = 0) => (pc = "march" /\ t = 0)
     /\ below => (pc = "hit" /\ FLt(d, HitThreshold(variant)))
     /\ pc = "hit" => (below /\ ret = tSample /\ t = tSample)
     /\ pc \in {"hit", "miss"} => ((ret = Sentinel) <=> ~below)

\* C5 witness: a hit returned after the march had advanced
C5_Witness ==
  variant \in BinaryHit /\ pc = "hit" /\ iters > 1 /\ ret = t /\ ret > 0

Scenario1 ==
  /\ variant = "sphere"
  /\ ro = <<0, 0, -5000>> /\ rd = <<0, 0, 1000>>
  /\ center = <<0, 0, 0>> /\ radius = Scale

\* C6: scenario 1 (origin (0,0,-5), direction (0,0,1), sphere at the origin,
\* radius parameter 1) ends in HIT with t within the hit epsilon of 4.
C6_Scenario1 ==
  (Scenario1 /\ pc # "march") =>
     (pc = "hit" /\ IAbs(ret - 4 * Scale) <= HitThreshold("sphere"))

Scenario2 ==
  /\ variant = "sphere"
  /\ ro = <<0, 0, -5000>> /\ rd = <<0, 0, 1000>>
  /\ center = <<100000, 100000, 100000>> /\ radius = Scale

\* C7: scenario 2 (same ray, sphere at (100,100,100), radius 1, max distance
\* 1000) ends in MISS with the sentinel -1.0; no sample is ever a hit.
C7_Scenario2 ==
  Scenario2 => (pc \in {"march", "miss"} /\ (pc = "miss" => ret = Sentinel))

\* C7 witness: scenario 2 has returned
C7_Witness == Scenario2 /\ pc = "miss" /\ t > MaxDistance("sphere")

\* C8: every sdfSphere without noise displacement is -r at the centre and 0
\* at every point c + r * u, u a unit vector.
C8_SphereLevelSet ==
  fn \in {"sdfSphere_glow", "sdfSphere_hit"} =>
     /\ fp = fc => fres = -fr
     /\ \A u \in UnitDirs : fp = VAdd(fc, VScale(fr, u)) => fres = 0

Outside(p, b) == IAbs(p[1]) > b[1] \/ IAbs(p[2]) > b[2] \/ IAbs(p[3]) > b[3]

StrictlyInside(p, b) == IAbs(p[1]) < b[1] /\ IAbs(p[2]) < b[2] /\ IAbs(p[3]) < b[3]

InsideOrOn(p, b) == ~Outside(p, b)

\* C9: for half-extents with positive components, sdfBox(p, b) >= 0 for p
\* outside the box and sdfBox(p, b) <= 0 for p strictly inside.
C9_BoxSign ==
  fn = "sdfBox" =>
     /\ Outside(fp, fb) => fres >= 0
     /\ StrictlyInside(fp, fb) => fres <= 0

\* C9 witness: a point outside at positive distance (and not only on an axis)
C9_Witness ==
  /\ fn = "sdfBox" /\ Outside(fp, fb) /\ fres > 0
  /\ fp[1] < 0 /\ IAbs(fp[2]) > fb[2]

\* C10: for p inside or on the box sdfBox(p, b) is the largest of
\* |p.x| - b.x, |p.y| - b.y, |p.z| - b.z; sdfBox((0,0,0), (1,1,1)) = -1.
C10_BoxInterior ==
  fn = "sdfBox" =>
     /\ InsideOrOn(fp, fb) =>
          fres = IMax(IAbs(fp[1]) - fb[1],
                      IMax(IAbs(fp[2]) - fb[2], IAbs(fp[3]) - fb[3]))
     /\ (fp = <<0, 0, 0>> /\ fb = <<Scale, Scale, Scale>>) => fres = -Scale

\* C10 witness: the centre of the unit box, and an off-centre interior point
C10_Witness ==
  /\ fn = "sdfBox" /\ fp = <<0, 0, 0>> /\ fb = <<Scale, Scale, Scale>>
  /\ fres = -Scale


\* the overlay colours the binary-hit shaders write on a hit
TintOrange == <<Scale, Scale \div 2, Scale \div 5>>
TintGreen == <<0, Scale, 0>>
TintYellow == <<Scale, (9 * Scale) \div 10, 0>>

\* C11: in every binary-hit variant a march that ends in MISS leaves the
\* pixel at the base scene colour of that pixel, unchanged
C11_MissPassThrough ==
  (variant \in BinaryHit /\ done /\ pc = "miss") => col = sceneColor

\* C12: in every binary-hit variant a march that ends in HIT writes the
\* tint colour, not the colour a MISS would have produced, for every
\* returned hit distance, a hit at the first sample (t = 0) included
C12_HitIsTinted ==
  (variant \in BinaryHit /\ done /\ pc = "hit") =>
     /\ col = (IF variant = "box"
               THEN (IF collisionDetected > Scale \div 2 THEN TintGreen
                                                         ELSE TintOrange)
               ELSE TintYellow)
     /\ col # (IF variant = "box" THEN <<0, 0, 0>> ELSE sceneColor)

\* C13: a volumetric march all of whose sampled distances are at least
\* h = 0.1 ends with td = 0 and alpha = 0, and the pixel keeps the scene
\* colour
C13_WideMiss ==
  (variant = "vol" /\ done /\ iters > 0 /\ ~sawNaN /\ ~below) =>
     (td = 0 /\ ret = 0 /\ col = sceneColor)

\* geometric ray/sphere intersection, in units of 0.01: the origin is in the
\* sphere, or the ray points towards it and passes within the radius
Dot(a, b) == a[1] * b[1] + a[2] * b[2] + a[3] * b[3]

Intersects(o, dir, c, r) ==
  LET oc   == <<(o[1] - c[1]) \div 10, (o[2] - c[2]) \div 10,
                (o[3] - c[3]) \div 10>>
      b    == Dot(oc, dir) \div Scale
      cc   == Dot(oc, oc) - (r \div 10) * (r \div 10)
  IN  ~HasNaN(o) /\ ~HasNaN(dir) /\ (cc <= 0 \/ (b <= 0 /\ b * b - cc >= 0))

\* C14: the glow rayMarch returns -1.0 for every ray that does not
\* intersect the sphere; it returns a distance only for rays that do
C14_GlowMissIsSentinel ==
  (variant = "glow" /\ pc \in {"hit", "miss"}
     /\ ~Intersects(ro, rd, center, radius)) => ret = Sentinel

\* C15: the volumetric alpha is clamp(td, 0, 1) and lies in [0, 1] for
\* every final td; the pixel is mix(sceneColor, volumetricColor, alpha),
\* the scene colour at alpha = 0 and the volumetric colour at alpha = 1
C15_AlphaMix ==
  (variant = "vol" /\ pc = "returned") =>
     /\ ret = clamp(td, 0, Scale)
     /\ ~IsNaN(ret) /\ 0 <= ret /\ ret <= Scale
     /\ done => /\ col = <<mix(sceneColor[1], volColor[1], ret),
                           mix(sceneColor[2], volColor[2], ret),
                           mix(sceneColor[3], volColor[3], ret)>>
                /\ (ret = 0 => col = sceneColor)
                /\ (ret = Scale => col = volColor)

\* C17: once td exceeds the saturation threshold 1 - 1/200 the volumetric
\* loop takes no further sample: td, tc and t never change again
C17_SaturationStops ==
  [][(variant = "vol" /\ FGt(td, Scale - Scale \div 200)) =>
       (td' = td /\ tc' = tc /\ t' = t /\ iters' = iters)]_vars

\* the loop returned on saturation alone: budget and range were not used up
C17_Witness ==
  /\ variant = "vol" /\ pc = "returned" /\ ~sawNaN
  /\ td > Scale - Scale \div 200
  /\ i < Steps("vol") /\ t <= MaxDistance("vol")
  /\ d >= TenThousandth(t)

\* C18: every executed iteration of the volumetric loop increases t by at
\* least 0.02 * 0.5 = 0.01, whatever distance was sampled
C18_MinAdvance ==
  [][(variant = "vol" /\ iters' = iters + 1) =>
       (~IsNaN(t) /\ ~IsNaN(t') /\ t' >= t + Scale \div 100)]_vars

\* C19: the local density (h - d) * step(d, h) is max(h - d, 0) for every
\* sampled d: 0 when d >= h, h - d when d < h, and never negative
C19_LocalDensity ==
  (variant = "vol" /\ iters > 0) =>
     /\ ld = FMax(FSub(Scale \div 10, dSample), 0)
     /\ (~IsNaN(dSample) /\ dSample >= Scale \div 10) => ld = 0
     /\ FLt(dSample, Scale \div 10) => ld = Scale \div 10 - dSample
     /\ ~FLt(ld, 0)

\* a sample inside the displaced sphere, and one outside the shell
C19_Witness ==
  /\ variant = "vol" /\ iters > 1 /\ ~sawNaN
  /\ dSample < 0 /\ ld > Scale \div 10

\* C20 (as stated): at each volumetric step td and tc receive the same
\* headroom-weighted increment
C20_SameIncrement ==
  [][(variant = "vol" /\ iters' = iters + 1) =>
       FSub(td', td) = FSub(tc', tc)]_vars

\* C20 (amended): at each volumetric step w = (1 - td) * ld; td receives
\* w + 1/200 and tc receives w * w + 1/50
C20_Increments ==
  [][(variant = "vol" /\ iters' = iters + 1) =>
       /\ w' = FMul(FSub(Scale, td), ld')
       /\ td' = FAdd(td, FAdd(w', Scale \div 200))
       /\ tc' = FAdd(tc, FAdd(FMul(w', w'), Scale \div 50))]_vars

\* a step with a non-zero weight, where w and w * w differ
C20_Witness ==
  /\ variant = "vol" /\ iters > 0 /\ ~sawNaN
  /\ w > 0 /\ FMul(w, w) # w /\ FMul(w, w) > 0

\* C21: remap(depth, 0, 1, N, F) is N at depth 0 and F at depth 1, is
\* non-decreasing in depth when N <= F, and at the depth 1.0 every main
\* passes worldFromUV scales the view-space position by exactly cameraFar
C21_DepthRemap ==
  /\ fn = "remap" =>
       LET depth == fp[1]
           near  == fp[2]
           far   == fp[3]
       IN  /\ (depth = 0 => fres = near)
           /\ (depth = Scale => fres = far)
           /\ near <= far =>
                /\ near <= fres /\ fres <= far
                /\ \A e \in Depths :
                     e <= depth => remap(e, 0, Scale, near, far) <= fres
  /\ fn = "worldFromUV" =>
       fc = <<FMul(fb[3], fp[1]), FMul(fb[3], fp[2]), FMul(fb[3], fp[3])>>

\* an off-centre pixel unprojected with near < far
C21_Witness ==
  /\ fn = "worldFromUV" /\ fb[2] < fb[3]
  /\ fp[1] # 0 /\ fp[2] # 0 /\ fc # fp

\* the interval of ray parameters inside the slab |x| <= Scale of one axis
SlabNear(o, dir) ==
  IF dir = 0 THEN (IF IAbs(o) <= Scale THEN -(10 ^ 8) ELSE 10 ^ 8)
  ELSE LET t1 == ((-Scale - o) * Scale) \div dir
           t2 == ((Scale - o) * Scale) \div dir
       IN  IF t1 < t2 THEN t1 ELSE t2

SlabFar(o, dir) ==
  IF dir = 0 THEN (IF IAbs(o) <= Scale THEN 10 ^ 8 ELSE -(10 ^ 8))
  ELSE LET t1 == ((-Scale - o) * Scale) \div dir
           t2 == ((Scale - o) * Scale) \div dir
       IN  IF t1 < t2 THEN t2 ELSE t1

\* ray parameter at which the ray enters, and leaves, the unit box
BoxEntry(o, dir) ==
  IMax(SlabNear(o[1], dir[1]),
       IMax(SlabNear(o[2], dir[2]), SlabNear(o[3], dir[3])))

BoxExit(o, dir) ==
  -IMax(-SlabFar(o[1], dir[1]),
        IMax(-SlabFar(o[2], dir[2]), -SlabFar(o[3], dir[3])))

BoxIntersects(o, dir) ==
  BoxExit(o, dir) >= 0 /\ BoxEntry(o, dir) <= BoxExit(o, dir)

\* the surface the binary-hit sphere SDF measures: length(p - c) = radius * 0.5
SurfaceRadius == FMul(radius, Scale \div 2)

\* the ray starts outside the primitive its distance function describes
OriginOutside ==
  /\ ~HasNaN(ro) /\ ~HasNaN(rd)
  /\ IF variant = "box"
     THEN IMax(IAbs(ro[1]), IMax(IAbs(ro[2]), IAbs(ro[3]))) > Scale
     ELSE length(VSub(ro, center)) > SurfaceRadius

MaxFrames == 3

\* main.ts (first scene), main.ts (second scene, as part_003), part_000,
\* part_001
Demos == { "main1", "main2", "part_000", "part_001" }

\* the scenes whose shader is the box shader reading collisionDetected
BoxDemos == { "main1", "main2" }

\* where attachControl lets the user take the camera: rotated, zoomed (into
\* the mesh as well) and panned (the forward ray need not meet the mesh)
CameraPositions == (Origins \ { <<0, 0, NaN>> })

CameraDirections == (Directions \ { <<NaN, NaN, NaN>> })

\* new Ray(origin, direction, length).intersectsMesh(mesh, true): the cube
\* of size 2, or the star of diameter 1 in part_000, both at the origin
RayHitsMesh(o, dir, len, dm) ==
  IF dm = "part_000"
  THEN Intersects(o, dir, <<0, 0, 0>>, Scale \div 2)
  ELSE BoxIntersects(o, dir) /\ BoxEntry(o, dir) <= len * Scale

\* the test each scene's before-render callback makes
CollisionTest(dm, pos, dir, live) ==
  CASE dm = "main1" -> TRUE  \* cube.intersectsMesh(cube, true)
    [] dm = "main2" ->
         RayHitsMesh(IF live THEN pos ELSE InitialPosition,
                     InitialDirection, 1000, dm)
    [] OTHER -> RayHitsMesh(pos, dir, 1000, dm)

\* what rayMarch of the box shader hands to main for a pixel: with the
\* camera in the box (or within hitThreshold of it) the first sample is a
\* hit at t = 0; otherwise a hit further on, or the sentinel
PixelOutcomes(pos) ==
  IF IsHit("box", sdfBox(pos, <<Scale, Scale, Scale>>))
  THEN { <<"hit", 0>> }
  ELSE { <<"hit", 2 * Scale>>, <<"miss", Sentinel>> }

InitFrame ==
  /\ variant = "box" /\ ro = <<0, 0, 0>> /\ rd = <<0, 0, Scale>>
  /\ center = <<0, 0, 0>> /\ radius = Scale
  /\ nf = [k \in 0 .. PatternLen - 1 |-> 0] /\ sinTime = 0
  /\ MarchStart
  /\ SdfIdle
  /\ demo \in Demos
  /\ camPos = InitialPosition /\ camDir = InitialDirection
  /\ originLive \in (IF demo = "main2" THEN BOOLEAN ELSE {FALSE})
  /\ tsFlag = 0 /\ phase = "idle" /\ frame = 0

\* camera.attachControl(canvas, true): the user moves the camera between
\* two frames
moveCamera ==
  /\ phase = "idle"
  /\ \E pos \in CameraPositions, dir \in CameraDirections :
       camPos' = pos /\ camDir' = dir
  /\ UNCHANGED <<demo, originLive, tsFlag, phase, frame,
                 inputVars, marchVars, sdfVars>>

\* scene.onBeforeRenderObservable callback
onBeforeRender ==
  /\ phase = "idle" /\ frame < MaxFrames
  /\ tsFlag' = (IF CollisionTest(demo, camPos, camDir, originLive)
                THEN Scale ELSE 0)
  /\ phase' = "beforeRendered"
  /\ frame' = frame + 1
  /\ UNCHANGED <<demo, camPos, camDir, originLive,
                 inputVars, marchVars, sdfVars>>

\* postProcess.onApply: effect.setFloat("collisionDetected", collisionDetected)
onApply ==
  /\ phase = "beforeRendered"
  /\ collisionDetected' = tsFlag
  /\ phase' = "applied"
  /\ UNCHANGED <<demo, camPos, camDir, originLive, tsFlag, frame,
                 inputVars, loopVars, sceneColor, col, done, histVars, sdfVars>>

\* main of the box shader on one pixel of the frame
drawPixel ==
  /\ phase = "applied" /\ demo \in BoxDemos
  /\ \E o \in PixelOutcomes(camPos), scene \in SceneColors :
       /\ pc' = o[1] /\ ret' = o[2]
       /\ sceneColor' = scene
       /\ col' = BoxColor(o[2], collisionDetected)
  /\ phase' = "drawn"
  /\ UNCHANGED <<demo, camPos, camDir, originLive, tsFlag, frame, inputVars,
                 i, t, d, hit, glow, ld, w, td, tc, volColor,
                 collisionDetected, done, histVars, sdfVars>>

\* scene.render() returns; runRenderLoop calls it again
endFrame ==
  /\ phase \in {"applied", "drawn"}
  /\ phase' = "idle"
  /\ UNCHANGED <<demo, camPos, camDir, originLive, tsFlag, frame,
                 inputVars, marchVars, sdfVars>>

NextFrame ==
  \/ moveCamera
  \/ onBeforeRender
  \/ onApply
  \/ drawPixel
  \/ endFrame

SpecFrame == InitFrame /\ [][NextFrame]_vars

\* C23: in every scene that computes a collision flag, the collisionDetected
\* the shader receives in a frame is 1.0 exactly when the ray from the
\* camera's current position along its current forward direction meets the
\* mesh, and 0.0 otherwise, whatever camera movements came before
C23_FlagIsCurrentRay ==
  phase \in {"applied", "drawn"} =>
     collisionDetected =
       (IF RayHitsMesh(camPos, camDir, 1000, demo) THEN Scale ELSE 0)

\* C24: in the box scenes the before-render callback has written the flag
\* before onApply of the same frame reads it; a HIT pixel is (0,1,0) exactly
\* when collisionDetected > 0.5 and (1,0.5,0.2) otherwise; on a pixel that
\* is not a HIT the flag does not change the output
C24_FlagTintsHit ==
  (demo \in BoxDemos /\ phase \in {"applied", "drawn"}) =>
     /\ collisionDetected = tsFlag
     /\ phase = "drawn" =>
          IF pc = "hit"
          THEN col = (IF collisionDetected > Scale \div 2 THEN TintGreen
                                                          ELSE TintOrange)
          ELSE col = BoxColor(ret, 0) /\ col = BoxColor(ret, Scale)

\* C25: a binary-hit rayMarch returns either the sentinel -1.0 or a hit
\* distance t with 0 <= t <= maxDistance; nothing in (-1, 0), nothing above
\* maxDistance
C25_ReturnRange ==
  (variant \in BinaryHit /\ pc \in {"hit", "miss"}) =>
     /\ ~IsNaN(ret)
     /\ ret = Sentinel \/ (0 <= ret /\ ret <= MaxDistance(variant))
     /\ pc = "hit" <=> ret # Sentinel

\* a hit returned after the ray has travelled
C25_Witness ==
  /\ variant \in BinaryHit /\ pc = "hit" /\ ~sawNaN
  /\ ret > 4 * Scale /\ iters > 2

\* C26: in the volumetric march at least one iteration executes, every
\* executed iteration has w >= 0 and increases td by at least 1/200, and
\* for every ray the final td and the returned alpha are > 0
C26_DensityGrows ==
  [][variant = "vol" =>
       /\ iters' = iters + 1 =>
            (FGt(w', -1) /\ ~IsNaN(td) /\ ~IsNaN(td')
               /\ td' >= td + Scale \div 200)
       /\ pc' = "returned" =>
            (iters' >= 1 /\ FGt(td', 0) /\ FGt(ret', 0))]_vars

\* C27: for non-NaN inputs, whenever the volumetric loop tests its break
\* condition d is the initial 1.0 (with t = 0) or at least 0.02 with
\* t <= 100 + 0.5 * d, so d < 0.0001 * t is false, and the loop ends only by
\* saturation, by t > 100 or by its 64 iterations
C27_EpsilonBreakUnused ==
  (variant = "vol" /\ ~HasNaN(ro) /\ ~HasNaN(rd)) =>
     /\ \/ (iters = 0 /\ d = Scale /\ t = 0)
        \/ (d >= Scale \div 50 /\ t <= 100 * Scale + FMul(d, Scale \div 2))
     /\ ~FLt(d, TenThousandth(t))
     /\ pc = "returned" =>
          \/ td > Scale - Scale \div 200
          \/ t > 100 * Scale
          \/ i >= Steps("vol")

\* the break condition was tested after a sample inside the sphere
C27_Witness ==
  /\ variant = "vol" /\ ~HasNaN(ro) /\ ~HasNaN(rd)
  /\ iters > 1 /\ dSample < 0 /\ d = Scale \div 50 /\ t > Scale

\* C28: if every sampled distance is at least h - 1 (ld <= 1), td never
\* exceeds 1 + 1/200; and when td ends above 1 the returned alpha is the
\* clamped 1
C28_DensityCap ==
  variant = "vol" =>
     /\ ~deep => ~FGt(td, Scale + Scale \div 200)
     /\ (pc = "returned" /\ FGt(td, Scale)) => ret = Scale

\* td went past 1 within the cap, no sample having been deep inside
C28_Witness ==
  /\ variant = "vol" /\ pc = "returned" /\ ~sawNaN /\ ~deep
  /\ td > Scale /\ td <= Scale + Scale \div 200 /\ ret = Scale

\* C29: fbm is the sum of 5 octaves of amplitudes 1/2 .. 1/32 and lies in
\* [0, 31/32]; the displaced sdfSphere is never below the base distance
\* length(p - c) - 0.5 * radius and exceeds it by at most weight * 31/32
\* (weight 0.25 volumetric, 0.1 binary-hit)
C29_FbmRange ==
  variant \in {"fbm", "vol"} =>
     /\ \A k \in 0 .. PatternLen - 1 :
          /\ fbm(nf, k) = (nf[k % PatternLen] \div 2)
                          + (nf[(k + 1) % PatternLen] \div 4)
                          + (nf[(k + 2) % PatternLen] \div 8)
                          + FMul(62, nf[(k + 3) % PatternLen])
                          + FMul(31, nf[(k + 4) % PatternLen])
          /\ 0 <= fbm(nf, k) /\ fbm(nf, k) <= (31 * Scale) \div 32
     /\ iters > 0 =>
          LET p == SamplePoint(ro, rd, tSample)
              base == FSub(length(VSub(p, center)), FMul(radius, Scale \div 2))
              weight == IF variant = "vol" THEN Scale \div 4 ELSE Scale \div 10
          IN  /\ ~FLt(dSample, base)
              /\ ~FGt(dSample, FAdd(base, FMul(weight, (31 * Scale) \div 32)))

\* a sample whose distance the noise has displaced
C29_Witness ==
  /\ variant \in {"fbm", "vol"} /\ iters > 1 /\ ~sawNaN
  /\ nf[0] # nf[1]
  /\ dSample > FSub(length(VSub(SamplePoint(ro, rd, tSample), center)),
                    FMul(radius, Scale \div 2))

\* C30: the glow accumulator starts at 0 and never decreases, each of the
\* at most 100 iterations adds a value in [0, 0.26], the final glow is in
\* [0, 26]; on a reported hit every channel of the output is in [0, 1] and
\* not below the scene colour's, otherwise the output is the scene colour
C30_GlowBounds ==
  [][variant = "glow" =>
       /\ iters' = iters + 1 =>
            /\ iters' <= 100
            /\ ~IsNaN(glow) /\ ~IsNaN(glow')
            /\ glow' >= glow /\ glow' - glow <= (26 * Scale) \div 100
       /\ ~IsNaN(glow') /\ 0 <= glow' /\ glow' <= 26 * Scale
       /\ done' =>
            IF pc' = "hit"
            THEN \A k \in 1 .. 3 :
                   /\ ~IsNaN(col'[k]) /\ 0 <= col'[k] /\ col'[k] <= Scale
                   /\ col'[k] >= sceneColor'[k]
            ELSE col' = sceneColor']_vars

============================================================================
